---- MODULE Spec2Model ----
(***************************************************************************)
(* Model of the PDF reader MCP server (src/index.js): the tool-call        *)
(* handler, loadPdf, cleanText and the three tool handlers.                *)
(*                                                                         *)
(* A JavaScript string is a sequence of chunks whose concatenation is the  *)
(* string: document text and queries are sequences of one-character        *)
(* chunks, the fixed text of a template literal is one chunk.  A request   *)
(* is followed through the awaits of its handler: the synchronous start of *)
(* the handler (CallTool), the completion of fs.readFile (ReadFileDone)    *)
(* and the completion of pdfParse together with the synchronous rest of    *)
(* the handler (ParseDone).  parsePageRange is a method that no handler     *)
(* calls: pageCall follows one direct call of it (ParsePageRange).         *)
(***************************************************************************)
EXTENDS Integers, Sequences, FiniteSets, TLC

VARIABLES fs, inbox, req, calls, handles, escaped, pageCall

vars == <<fs, inbox, req, calls, handles, escaped, pageCall>>

(***************************************************************************)
(* Characters and strings                                                  *)
(***************************************************************************)
NL == "\n"
BS == "\\"
VT == "<VT>"

UpperLetters == <<"A","B","C","D","E","F","G","H","I","J","K","L","M",
                  "N","O","P","Q","R","S","T","U","V","W","X","Y","Z">>
LowerLetters == <<"a","b","c","d","e","f","g","h","i","j","k","l","m",
                  "n","o","p","q","r","s","t","u","v","w","x","y","z">>
Digits == <<"0","1","2","3","4","5","6","7","8","9">>

SeqRange(s) == {s[i] : i \in 1..Len(s)}

\* String.prototype.toLowerCase on one character
toLowerCaseChar(c) ==
    IF \E i \in 1..Len(UpperLetters) : UpperLetters[i] = c
    THEN LowerLetters[CHOOSE i \in 1..Len(UpperLetters) : UpperLetters[i] = c]
    ELSE c

\* String.prototype.toLowerCase
toLowerCase(s) == [i \in 1..Len(s) |-> toLowerCaseChar(s[i])]

\* String.prototype.includes
includes(hay, needle) ==
    \E i \in 0..(Len(hay) - Len(needle)) :
        SubSeq(hay, i + 1, i + Len(needle)) = needle

\* String.prototype.split("\n")
RECURSIVE SplitFrom(_, _, _)
SplitFrom(s, i, cur) ==
    IF i > Len(s) THEN <<cur>>
    ELSE IF s[i] = NL THEN <<cur>> \o SplitFrom(s, i + 1, <<>>)
    ELSE SplitFrom(s, i + 1, Append(cur, s[i]))

\* a split that leaves the text in one piece
split_NoSplit(s) == <<s>>

split(s) == SplitFrom(s, 1, <<>>)

\* Array.prototype.join("\n")
RECURSIVE join(_)
join(ls) ==
    IF Len(ls) = 0 THEN <<>>
    ELSE IF Len(ls) = 1 THEN ls[1]
    ELSE ls[1] \o <<NL>> \o join(Tail(ls))

Max(a, b) == IF a >= b THEN a ELSE b
Min(a, b) == IF a <= b THEN a ELSE b

(***************************************************************************)
(* RegExp: the part of the pattern language the inputs of this model can   *)
(* reach.  A pattern source is compiled to a sequence of atoms, or to      *)
(* "SyntaxError" (new RegExp throws), or to "unsupported" (syntax this     *)
(* model does not cover; no input of the model produces it).               *)
(***************************************************************************)
IsWordChar(c) ==
    \/ c \in SeqRange(UpperLetters)
    \/ c \in SeqRange(LowerLetters)
    \/ c \in SeqRange(Digits)
    \/ c = "_"

IsSpaceChar(c) == c \in {" ", "\t", NL, "\r", "\f", VT}

IsDigitChar(c) == c \in SeqRange(Digits)

IsLineTerminator(c) == c \in {NL, "\r"}

ClassEscapes == {"w", "W", "s", "S", "d", "D"}
ControlEscapes == {"t", "n", "r", "f", "v"}
ControlChar(c) ==
    CASE c = "t" -> "\t" [] c = "n" -> NL [] c = "r" -> "\r"
      [] c = "f" -> "\f" [] c = "v" -> VT
\* escapes and syntax characters whose meaning is not modelled
OtherEscapes == {"c", "x", "u", "k"} \cup SeqRange(Digits)
OtherSyntax == {")", "[", "]", "{", "}", "*", "+", "?", "|", "^", "$"}

RECURSIVE CompileFrom(_, _)
CompileFrom(src, i) ==
    IF i > Len(src) THEN [ok |-> "ok", atoms |-> <<>>]
    ELSE
      LET c == src[i]
          Then(atom, n) ==
              LET rest == CompileFrom(src, i + n)
              IN  IF rest.ok = "ok"
                  THEN [ok |-> "ok", atoms |-> <<atom>> \o rest.atoms]
                  ELSE rest
      IN  IF c = BS THEN
              IF i = Len(src) THEN [ok |-> "SyntaxError", atoms |-> <<>>]
              ELSE LET e == src[i + 1]
                   IN  IF e = "b" THEN Then([k |-> "wordb", c |-> ""], 2)
                       ELSE IF e = "B" THEN Then([k |-> "notwordb", c |-> ""], 2)
                       ELSE IF e \in ClassEscapes THEN Then([k |-> "class", c |-> e], 2)
                       ELSE IF e \in ControlEscapes
                            THEN Then([k |-> "char", c |-> ControlChar(e)], 2)
                       ELSE IF e \in OtherEscapes
                            THEN [ok |-> "unsupported", atoms |-> <<>>]
                       ELSE Then([k |-> "char", c |-> e], 2)
          ELSE IF c = "." THEN Then([k |-> "any", c |-> ""], 1)
          ELSE IF c = "(" THEN
              IF \A j \in (i + 1)..Len(src) : src[j] # ")"
              THEN [ok |-> "SyntaxError", atoms |-> <<>>]
              ELSE [ok |-> "unsupported", atoms |-> <<>>]
          ELSE IF c \in OtherSyntax THEN [ok |-> "unsupported", atoms |-> <<>>]
          ELSE Then([k |-> "char", c |-> c], 1)

\* new RegExp(source, flags): flags is "" or "i"
RegExp(source, flags) ==
    LET p == CompileFrom(source, 1)
    IN  [ok |-> p.ok, atoms |-> p.atoms, source |-> source, flags |-> flags]

\* a word boundary lies between positions p and p + 1 of the line (p in 0..Len)
AtWordBoundary(line, p) ==
    LET a == p >= 1 /\ IsWordChar(line[p])
        b == p < Len(line) /\ IsWordChar(line[p + 1])
    IN  a # b

ClassMatches(e, ch) ==
    CASE e = "w" -> IsWordChar(ch)
      [] e = "W" -> ~IsWordChar(ch)
      [] e = "s" -> IsSpaceChar(ch)
      [] e = "S" -> ~IsSpaceChar(ch)
      [] e = "d" -> IsDigitChar(ch)
      [] e = "D" -> ~IsDigitChar(ch)

CharMatches(c, ch, ignoreCase) ==
    IF ignoreCase THEN toLowerCaseChar(c) = toLowerCaseChar(ch) ELSE c = ch

\* the atoms from k on match the line from position p (0-based) on
RECURSIVE MatchAt(_, _, _, _, _)
MatchAt(atoms, k, line, p, ignoreCase) ==
    IF k > Len(atoms) THEN TRUE
    ELSE
      LET a == atoms[k]
      IN  IF a.k = "wordb"
          THEN AtWordBoundary(line, p) /\ MatchAt(atoms, k + 1, line, p, ignoreCase)
          ELSE IF a.k = "notwordb"
          THEN ~AtWordBoundary(line, p) /\ MatchAt(atoms, k + 1, line, p, ignoreCase)
          ELSE /\ p < Len(line)
               /\ CASE a.k = "char" -> CharMatches(a.c, line[p + 1], ignoreCase)
                    [] a.k = "class" -> ClassMatches(a.c, line[p + 1])
                    [] a.k = "any" -> ~IsLineTerminator(line[p + 1])
               /\ MatchAt(atoms, k + 1, line, p + 1, ignoreCase)

\* RegExp.prototype.test (no g or y flag: every call starts at index 0)
test(regex, line) ==
    \E p \in 0..Len(line) : MatchAt(regex.atoms, 1, line, p, regex.flags = "i")

(***************************************************************************)
(* JavaScript values of an argument bag and of the parser's result         *)
(***************************************************************************)
Undefined == [t |-> "undefined", v |-> 0]
Null == [t |-> "null", v |-> 0]
JsStr(s) == [t |-> "string", v |-> s]
JsBool(b) == [t |-> "boolean", v |-> b]
JsNum(n) == [t |-> "number", v |-> n]

\* args.f of an argument bag (a record): undefined when the bag has no f
Get(args, f) == IF f \in DOMAIN args THEN args[f] ELSE Undefined

\* a destructuring without defaults
Default_None(val, d) == val

\* a destructuring default, { f = d } = args: used only for undefined
Default(val, d) == IF val.t = "undefined" THEN d ELSE val

\* ToBoolean
Truthy(val) ==
    CASE val.t = "boolean" -> val.v
      [] val.t = "string" -> Len(val.v) > 0
      [] val.t = "number" -> val.v # 0
      [] OTHER -> FALSE

\* Number.prototype.toString of a natural number
RECURSIVE NumStr(_)
NumStr(n) ==
    IF n < 10 THEN <<Digits[n + 1]>>
    ELSE NumStr(n \div 10) \o <<Digits[(n % 10) + 1]>>

\* ToString, as applied by String.prototype.includes and by template literals
JsToString(val) ==
    CASE val.t = "string" -> val.v
      [] val.t = "number" -> NumStr(val.v)
      [] val.t = "boolean" ->
           IF val.v THEN <<"t","r","u","e">> ELSE <<"f","a","l","s","e">>
      [] OTHER -> <<"u","n","d","e","f","i","n","e","d">>

(***************************************************************************)
(* handleSearchPdf, lines 236-267: the scan of the lines                   *)
(***************************************************************************)
contextLines == 2

\* let searchQuery = query; if (!case_sensitive) searchQuery = query.toLowerCase()
\* (a value; query.toLowerCase throws when query is no string)
SearchQueryThrows(query, case_sensitive) ==
    ~case_sensitive /\ query.t # "string"

searchQuery(query, case_sensitive) ==
    IF case_sensitive THEN query ELSE JsStr(toLowerCase(query.v))

\* a pattern without the word-boundary markers
PatternSource_NoBoundary(query, case_sensitive) ==
    JsToString(searchQuery(query, case_sensitive))

\* `\\b${searchQuery}\\b`
PatternSource(query, case_sensitive) ==
    <<BS, "b">> \o JsToString(searchQuery(query, case_sensitive)) \o <<BS, "b">>

\* a pattern that ignores letter case whatever case_sensitive is
WordRegex_AlwaysIgnoreCase(query, case_sensitive) ==
    RegExp(<<BS, "b">> \o JsToString(searchQuery(query, case_sensitive)) \o <<BS, "b">>,
           "i")

\* new RegExp(`\\b${searchQuery}\\b`, case_sensitive ? "" : "i")
WordRegex(query, case_sensitive) ==
    RegExp(PatternSource(query, case_sensitive), IF case_sensitive THEN "" ELSE "i")

\* a line that is never lower-cased
searchLine_Raw(line, case_sensitive) == line

\* let searchLine = case_sensitive ? line : line.toLowerCase()
searchLine(line, case_sensitive) ==
    IF case_sensitive THEN line ELSE toLowerCase(line)

\* isMatch for one line (no exception is thrown here)
isMatch(line, query, case_sensitive, whole_word) ==
    IF whole_word
    THEN test(WordRegex(query, case_sensitive), line)
    ELSE includes(searchLine(line, case_sensitive),
                  JsToString(searchQuery(query, case_sensitive)))

\* an excerpt that ends one line early
ContextOf_NoTrailingLine(lines, i) ==
    LET start == Max(0, i - contextLines)
        end == Min(Len(lines), i + contextLines)
    IN  join(SubSeq(lines, start + 1, end))

\* the excerpt pushed for a match at the 0-based index i
ContextOf(lines, i) ==
    LET start == Max(0, i - contextLines)
        end == Min(Len(lines), i + contextLines + 1)
    IN  join(SubSeq(lines, start + 1, end))

\* a loop that folds a match into the one on the line before it
RECURSIVE ScanFrom_MergeAdjacent(_, _, _, _, _)
ScanFrom_MergeAdjacent(lines, i, query, case_sensitive, whole_word) ==
    IF i >= Len(lines) THEN <<>>
    ELSE (IF /\ isMatch(lines[i + 1], query, case_sensitive, whole_word)
             /\ ~(i > 0 /\ isMatch(lines[i], query, case_sensitive, whole_word))
          THEN <<[line |-> i + 1, context |-> join(SubSeq(lines, Max(0, i - 2) + 1,
                                                          Min(Len(lines), i + 3)))]>>
          ELSE <<>>)
         \o ScanFrom_MergeAdjacent(lines, i + 1, query, case_sensitive, whole_word)

\* the loop over the lines: matches pushed for the indices i..lines.length-1
RECURSIVE ScanFrom(_, _, _, _, _)
ScanFrom(lines, i, query, case_sensitive, whole_word) ==
    IF i >= Len(lines) THEN <<>>
    ELSE (IF isMatch(lines[i + 1], query, case_sensitive, whole_word)
          THEN <<[line |-> i + 1, context |-> ContextOf(lines, i)]>>
          ELSE <<>>)
         \o ScanFrom(lines, i + 1, query, case_sensitive, whole_word)

\* what the scan leaves behind: the exception it threw (its message, empty
\* when none), the matches, and the pattern it built under the whole-word policy
NoScan == [ran |-> FALSE, threw |-> <<>>, matches |-> <<>>,
           regex |-> FALSE, source |-> <<>>, flags |-> ""]

\* lines 236-267
SearchMatches(text, query, case_sensitive, whole_word) ==
    IF SearchQueryThrows(query, case_sensitive)
    THEN [NoScan EXCEPT !.ran = TRUE,
              !.threw = <<"TypeError: query.toLowerCase is not a function">>]
    ELSE LET withRegex ==
                 IF whole_word
                 THEN [NoScan EXCEPT !.ran = TRUE, !.regex = TRUE,
                           !.source = WordRegex(query, case_sensitive).source,
                           !.flags = WordRegex(query, case_sensitive).flags]
                 ELSE [NoScan EXCEPT !.ran = TRUE]
         IN  IF whole_word /\ WordRegex(query, case_sensitive).ok # "ok"
             THEN [withRegex EXCEPT
                       !.threw = <<"SyntaxError: Invalid regular expression">>]
             ELSE [withRegex EXCEPT
                       !.matches = ScanFrom(split(text), 0, query,
                                            case_sensitive, whole_word)]

(***************************************************************************)
(* cleanText, lines 161-166                                                *)
(***************************************************************************)
\* a replacement of every two white-space characters by one space
RECURSIVE CollapseWhitespace_Pairs(_, _)
CollapseWhitespace_Pairs(s, i) ==
    IF i > Len(s) THEN <<>>
    ELSE IF IsSpaceChar(s[i]) /\ i < Len(s) /\ IsSpaceChar(s[i + 1])
    THEN <<" ">> \o CollapseWhitespace_Pairs(s, i + 2)
    ELSE <<s[i]>> \o CollapseWhitespace_Pairs(s, i + 1)

\* .replace(/\s+/g, " ")
RECURSIVE CollapseWhitespace(_, _)
CollapseWhitespace(s, i) ==
    IF i > Len(s) THEN <<>>
    ELSE IF IsSpaceChar(s[i])
    THEN IF i > 1 /\ IsSpaceChar(s[i - 1])
         THEN CollapseWhitespace(s, i + 1)
         ELSE <<" ">> \o CollapseWhitespace(s, i + 1)
    ELSE <<s[i]>> \o CollapseWhitespace(s, i + 1)

\* the length of the run of newlines that starts at index i
RECURSIVE NewlineRun(_, _)
NewlineRun(s, i) ==
    IF i > Len(s) \/ s[i] # NL THEN 0 ELSE 1 + NewlineRun(s, i + 1)

\* .replace(/\n{3,}/g, "\n\n")
RECURSIVE CollapseNewlines(_, _)
CollapseNewlines(s, i) ==
    IF i > Len(s) THEN <<>>
    ELSE LET n == NewlineRun(s, i)
         IN  IF n >= 3 THEN <<NL, NL>> \o CollapseNewlines(s, i + n)
             ELSE IF n > 0 THEN SubSeq(s, i, i + n - 1) \o CollapseNewlines(s, i + n)
             ELSE <<s[i]>> \o CollapseNewlines(s, i + 1)

\* a trim of the start of the string only
RECURSIVE trim_LeadingOnly(_)
trim_LeadingOnly(s) ==
    IF Len(s) > 0 /\ IsSpaceChar(s[1]) THEN trim_LeadingOnly(Tail(s)) ELSE s

\* .trim()
RECURSIVE trim(_)
trim(s) ==
    IF Len(s) = 0 THEN s
    ELSE IF IsSpaceChar(s[1]) THEN trim(Tail(s))
    ELSE IF IsSpaceChar(s[Len(s)]) THEN trim(SubSeq(s, 1, Len(s) - 1))
    ELSE s

cleanText(text) == trim(CollapseNewlines(CollapseWhitespace(text, 1), 1))

(***************************************************************************)
(* parsePageRange, lines 168-191.  A number is JsNum(n) or NaN; the Set of  *)
(* pages is the sequence of its members in insertion order.                 *)
(***************************************************************************)
NaN == [t |-> "number", nan |-> TRUE]
IsNaN(x) == "nan" \in DOMAIN x

HexLetters == <<"a","b","c","d","e","f">>

\* the value of c as a digit of the radix, -1 when it is none
DigitValue(c, radix) ==
    LET lc == toLowerCaseChar(c)
        v == IF \E i \in 1..Len(Digits) : Digits[i] = c
             THEN (CHOOSE i \in 1..Len(Digits) : Digits[i] = c) - 1
             ELSE IF \E i \in 1..Len(HexLetters) : HexLetters[i] = lc
             THEN 9 + (CHOOSE i \in 1..Len(HexLetters) : HexLetters[i] = lc)
             ELSE -1
    IN  IF v < radix THEN v ELSE -1

\* the longest prefix of digits from index i on, as a number; NaN when empty
RECURSIVE ParseDigits(_, _, _, _, _)
ParseDigits(s, i, radix, acc, seen) ==
    IF i > Len(s) \/ DigitValue(s[i], radix) < 0
    THEN IF seen THEN JsNum(acc) ELSE NaN
    ELSE ParseDigits(s, i + 1, radix, acc * radix + DigitValue(s[i], radix), TRUE)

\* the index of the first character of s that is no white space
RECURSIVE SkipWhiteSpace(_, _)
SkipWhiteSpace(s, i) ==
    IF i <= Len(s) /\ IsSpaceChar(s[i]) THEN SkipWhiteSpace(s, i + 1) ELSE i

\* parseInt(string) without a radix: white space, a sign, 0x or 0X, digits
parseInt(s) ==
    LET i == SkipWhiteSpace(s, 1)
        signed == i <= Len(s) /\ s[i] \in {"+", "-"}
        j == IF signed THEN i + 1 ELSE i
        hex == j + 1 <= Len(s) /\ s[j] = "0" /\ s[j + 1] \in {"x", "X"}
        n == IF hex THEN ParseDigits(s, j + 2, 16, 0, FALSE)
             ELSE ParseDigits(s, j, 10, 0, FALSE)
    IN  IF IsNaN(n) THEN NaN
        ELSE IF signed /\ s[i] = "-" THEN JsNum(0 - n.v) ELSE n

\* String.prototype.split(separator) for a separator of one character
RECURSIVE SplitOnFrom(_, _, _, _)
SplitOnFrom(s, sep, i, cur) ==
    IF i > Len(s) THEN <<cur>>
    ELSE IF s[i] = sep THEN <<cur>> \o SplitOnFrom(s, sep, i + 1, <<>>)
    ELSE SplitOnFrom(s, sep, i + 1, Append(cur, s[i]))

splitOn(s, sep) == SplitOnFrom(s, sep, 1, <<>>)

\* Set.prototype.add
SetAdd(pages, i) ==
    IF \E k \in 1..Len(pages) : pages[k] = i THEN pages ELSE Append(pages, i)

\* a loop that does not stop at the last page of the document
RECURSIVE RangeLoop_IgnoreTotalPages(_, _, _, _)
RangeLoop_IgnoreTotalPages(pages, i, end, totalPages) ==
    IF i <= end
    THEN RangeLoop_IgnoreTotalPages(SetAdd(pages, i), i + 1, end, totalPages)
    ELSE pages

\* for (let i = start; i <= end && i <= totalPages; i++) pages.add(i)
RECURSIVE RangeLoop(_, _, _, _)
RangeLoop(pages, i, end, totalPages) ==
    IF i <= end /\ i <= totalPages
    THEN RangeLoop(SetAdd(pages, i), i + 1, end, totalPages)
    ELSE pages

\* lines 178-181: a part with a "-"; a comparison with NaN is false
RangePart(pages, part, totalPages) ==
    LET ns == splitOn(part, "-")
        start == parseInt(trim(ns[1]))
        end == parseInt(trim(ns[2]))
    IN  IF IsNaN(start) \/ IsNaN(end) THEN pages
        ELSE RangeLoop(pages, start.v, end.v, totalPages)

\* a part that is added whatever the number of pages is
SinglePart_NoBound(pages, part, totalPages) ==
    IF ~IsNaN(parseInt(trim(part)))
    THEN SetAdd(pages, parseInt(trim(part)).v)
    ELSE pages

\* lines 183-186: a part without a "-"
SinglePart(pages, part, totalPages) ==
    LET page == parseInt(trim(part))
    IN  IF ~IsNaN(page) /\ page.v <= totalPages
        THEN SetAdd(pages, page.v)
        ELSE pages

\* for (const part of parts), lines 176-188, from the part at index k on
RECURSIVE AddParts(_, _, _, _)
AddParts(pages, parts, k, totalPages) ==
    IF k > Len(parts) THEN pages
    ELSE AddParts(IF includes(parts[k], <<"-">>)
                  THEN RangePart(pages, parts[k], totalPages)
                  ELSE SinglePart(pages, parts[k], totalPages),
                  parts, k + 1, totalPages)

\* an array left in insertion order
sort_InsertionOrder(pages) == pages

\* Array.prototype.sort((a, b) => a - b) of numbers without duplicates
RECURSIVE sort(_)
sort(pages) ==
    IF Len(pages) = 0 THEN <<>>
    ELSE LET m == CHOOSE k \in 1..Len(pages) :
                      \A j \in 1..Len(pages) : pages[k] <= pages[j]
         IN  <<pages[m]>>
             \o sort(SubSeq(pages, 1, m - 1) \o SubSeq(pages, m + 1, Len(pages)))

All == <<"a", "l", "l">>

\* an "all" that counts the pages from 0
parsePageRange_AllFromZero(pageRange, totalPages) ==
    IF pageRange = All
    THEN [i \in 1..totalPages |-> i - 1]
    ELSE sort(AddParts(<<>>, splitOn(pageRange, ","), 1, totalPages))

\* parsePageRange(pageRange, totalPages) for a string pageRange
parsePageRange(pageRange, totalPages) ==
    IF pageRange = All
    THEN [k \in 1..totalPages |-> (k - 1) + 1]
    ELSE sort(AddParts(<<>>, splitOn(pageRange, ","), 1, totalPages))

(***************************************************************************)
(* The three handlers after `await this.loadPdf(file)`: the outcome is a   *)
(* returned envelope or a thrown error.                                    *)
(***************************************************************************)
\* a return of an envelope with a second, empty text item
Return_TwoItems(text) ==
    [kind |-> "return",
     value |-> [content |-> <<[type |-> "text", text |-> text],
                              [type |-> "text", text |-> <<>>]>>]]

Return(text) ==
    [kind |-> "return",
     value |-> [content |-> <<[type |-> "text", text |-> text]>>]]
Throw(message) == [kind |-> "throw", message |-> message]

NA == <<"N/A">>

\* a field that is printed as it is found
InfoField_NoSentinel(pdf, f) ==
    IF pdf.info.t = "object" /\ f \in DOMAIN pdf.info.v
    THEN pdf.info.v[f]
    ELSE JsToString(Undefined)

\* pdf.info?.F || "N/A"  and  metadata.info.F || "N/A"  (info || {})
InfoField(pdf, f) ==
    IF pdf.info.t = "object" /\ f \in DOMAIN pdf.info.v /\ Len(pdf.info.v[f]) > 0
    THEN pdf.info.v[f]
    ELSE NA

\* a handler that returns the lines the page range selects
ReadPdfResult_HonoursPages(args, pdf) ==
    LET pages == Get(args, "pages")
        lines == split(pdf.text)
        selected == IF pages.t = "string"
                    THEN SelectSeq(parsePageRange(pages.v, Len(lines)),
                                   LAMBDA n : n >= 1)
                    ELSE [k \in 1..Len(lines) |-> k]
        text == join([k \in 1..Len(selected) |-> lines[selected[k]]])
        include_metadata == Truthy(Default(Get(args, "include_metadata"), JsBool(TRUE)))
    IN  Return(<<"PDF Text Content:\n\n">>
               \o (IF Truthy(Default(Get(args, "clean_text"), JsBool(FALSE)))
                   THEN cleanText(text) ELSE text)
               \o (IF include_metadata
                   THEN <<"\n\n--- PDF Metadata ---">>
                        \o <<"\n", "Pages: ">> \o NumStr(pdf.numpages)
                        \o <<"\n", "Title: ">> \o InfoField(pdf, "Title")
                        \o <<"\n", "Author: ">> \o InfoField(pdf, "Author")
                        \o <<"\n", "Creator: ">> \o InfoField(pdf, "Creator")
                        \o <<"\n", "Producer: ">> \o InfoField(pdf, "Producer")
                   ELSE <<>>))

\* a handler that appends the metadata block whatever include_metadata is
ReadPdfResult_AlwaysMetadata(args, pdf) ==
    LET clean_text == Truthy(Default(Get(args, "clean_text"), JsBool(FALSE)))
        text == IF clean_text THEN cleanText(pdf.text) ELSE pdf.text
    IN  Return(<<"PDF Text Content:\n\n">> \o text
               \o <<"\n\n--- PDF Metadata ---">>
               \o <<"\n", "Pages: ">> \o NumStr(pdf.numpages)
               \o <<"\n", "Title: ">> \o InfoField(pdf, "Title")
               \o <<"\n", "Author: ">> \o InfoField(pdf, "Author")
               \o <<"\n", "Creator: ">> \o InfoField(pdf, "Creator")
               \o <<"\n", "Producer: ">> \o InfoField(pdf, "Producer"))

\* handleReadPdf, lines 197-227
ReadPdfResult(args, pdf) ==
    LET clean_text == Truthy(Default(Get(args, "clean_text"), JsBool(FALSE)))
        include_metadata == Truthy(Default(Get(args, "include_metadata"), JsBool(TRUE)))
        text == IF clean_text THEN cleanText(pdf.text) ELSE pdf.text
        metadata ==
            <<"\n\n--- PDF Metadata ---">>
            \o <<"\n", "Pages: ">> \o NumStr(pdf.numpages)
            \o <<"\n", "Title: ">> \o InfoField(pdf, "Title")
            \o <<"\n", "Author: ">> \o InfoField(pdf, "Author")
            \o <<"\n", "Creator: ">> \o InfoField(pdf, "Creator")
            \o <<"\n", "Producer: ">> \o InfoField(pdf, "Producer")
    IN  Return(<<"PDF Text Content:\n\n">> \o text
               \o (IF include_metadata THEN metadata ELSE <<>>))

\* matches.map(...).join("\n---\n\n"), lines 272-276
RECURSIVE MatchesText(_, _)
MatchesText(matches, idx) ==
    IF idx > Len(matches) THEN <<>>
    ELSE (IF idx > 1 THEN <<"\n---\n\n">> ELSE <<>>)
         \o <<"Match ">> \o NumStr(idx) \o <<" (around line ">>
         \o NumStr(matches[idx].line) \o <<"):\n">>
         \o matches[idx].context \o <<"\n">>
         \o MatchesText(matches, idx + 1)

\* handleSearchPdf, lines 231-267: the scan of pdf.text under the arguments
SearchScan(args, pdf) ==
    SearchMatches(pdf.text, Get(args, "query"),
                  Truthy(Default(Get(args, "case_sensitive"), JsBool(FALSE))),
                  Truthy(Default(Get(args, "whole_word"), JsBool(FALSE))))

\* a handler that treats an empty match list as a failure
SearchPdfResult_ThrowOnEmpty(args, pdf) ==
    LET scan == SearchScan(args, pdf)
    IN  IF Len(scan.threw) > 0 THEN Throw(scan.threw)
        ELSE IF Len(scan.matches) = 0 THEN Throw(<<"No matches found.">>)
        ELSE Return(<<"Found ">> \o NumStr(Len(scan.matches))
                    \o <<" match(es) for \"">> \o JsToString(Get(args, "query"))
                    \o <<"\" in ">> \o JsToString(Get(args, "file")) \o <<"\n\n">>
                    \o MatchesText(scan.matches, 1))

\* handleSearchPdf, lines 234-288
SearchPdfResult(args, pdf) ==
    LET query == Get(args, "query")
        scan == SearchScan(args, pdf)
    IN  IF Len(scan.threw) > 0 THEN Throw(scan.threw)
        ELSE Return(<<"Found ">> \o NumStr(Len(scan.matches))
                    \o <<" match(es) for \"">> \o JsToString(query)
                    \o <<"\" in ">> \o JsToString(Get(args, "file")) \o <<"\n\n">>
                    \o (IF Len(scan.matches) > 0
                        THEN MatchesText(scan.matches, 1)
                        ELSE <<"No matches found.">>))

\* handlePdfMetadata, lines 296-328
PdfMetadataResult(args, pdf) ==
    Return(<<"PDF Metadata for: ">> \o JsToString(Get(args, "file"))
           \o <<"\n", "\n", "Pages: ">> \o NumStr(pdf.numpages)
           \o <<"\n", "Version: ">>
           \o (IF Truthy(pdf.version) THEN pdf.version.v ELSE NA)
           \o <<"\n", "\n", "Document Information:">>
           \o <<"\n", "  Title: ">> \o InfoField(pdf, "Title")
           \o <<"\n", "  Author: ">> \o InfoField(pdf, "Author")
           \o <<"\n", "  Subject: ">> \o InfoField(pdf, "Subject")
           \o <<"\n", "  Keywords: ">> \o InfoField(pdf, "Keywords")
           \o <<"\n", "  Creator: ">> \o InfoField(pdf, "Creator")
           \o <<"\n", "  Producer: ">> \o InfoField(pdf, "Producer")
           \o <<"\n", "  Creation Date: ">> \o InfoField(pdf, "CreationDate")
           \o <<"\n", "  Modification Date: ">> \o InfoField(pdf, "ModDate"))

ToolNames == {"read-pdf", "search-pdf", "pdf-metadata"}

\* the rest of a handler once its document is parsed
HandlerResult(name, args, pdf) ==
    CASE name = "read-pdf" -> ReadPdfResult(args, pdf)
      [] name = "search-pdf" -> SearchPdfResult(args, pdf)
      [] name = "pdf-metadata" -> PdfMetadataResult(args, pdf)

(***************************************************************************)
(* The input schemas the server declares for its tools, lines 48-124       *)
(***************************************************************************)
InputSchema(name) ==
    CASE name = "read-pdf" ->
           [properties |-> [file |-> "string", pages |-> "string",
                            clean_text |-> "boolean", include_metadata |-> "boolean"],
            required |-> {"file"}]
      [] name = "search-pdf" ->
           [properties |-> [file |-> "string", query |-> "string",
                            case_sensitive |-> "boolean", whole_word |-> "boolean"],
            required |-> {"file", "query"}]
      [] name = "pdf-metadata" ->
           [properties |-> [file |-> "string"],
            required |-> {"file"}]

(***************************************************************************)
(* The tool-call handler, lines 127-152, and loadPdf, lines 155-159        *)
(***************************************************************************)
\* a handler that lets the error through
CallToolCatch_Rethrow(outcome) == outcome

\* the catch clause of the tool-call handler, lines 141-151
CallToolCatch(outcome) ==
    IF outcome.kind = "throw"
    THEN [kind |-> "return",
          value |-> [content |-> <<[type |-> "text",
                                    text |-> <<"Error: ">> \o outcome.message]>>,
                     isError |-> TRUE]]
    ELSE outcome

\* path.resolve(filePath) for a string: relative paths start at the working directory
Cwd == <<"/work/">>
resolve(filePath) ==
    IF Len(filePath) > 0 /\ filePath[1] = "/" THEN filePath ELSE Cwd \o filePath

NoResult == [content |-> <<>>]
IdleRequest == [pc |-> "idle", path |-> <<>>, handle |-> 0,
                scan |-> NoScan, result |-> NoResult]

\* a server that numbers its answers
Settle_NumbersAnswers(r, outcome, handle, scan) ==
    LET settled == CallToolCatch(outcome)
        answered == Cardinality({q \in DOMAIN req : req[q].pc = "done"})
    IN  /\ req' = [req EXCEPT ![r].pc = "done",
                              ![r].handle = handle,
                              ![r].scan = scan,
                              ![r].result =
                                  IF settled.kind = "return"
                                  THEN [settled.value EXCEPT
                                           !.content[1].text = @ \o NumStr(answered)]
                                  ELSE NoResult]
        /\ escaped' = IF settled.kind = "return" THEN escaped ELSE escaped \cup {r}

\* the handler's promise settles: with the envelope, or rejected
Settle(r, outcome, handle, scan) ==
    LET settled == CallToolCatch(outcome)
    IN  /\ req' = [req EXCEPT ![r].pc = "done",
                              ![r].handle = handle,
                              ![r].scan = scan,
                              ![r].result = IF settled.kind = "return"
                                            THEN settled.value ELSE NoResult]
        /\ escaped' = IF settled.kind = "return" THEN escaped ELSE escaped \cup {r}

\* A tool call arrives: the handler runs up to `await fs.readFile(...)`.
CallTool(r) ==
    /\ req[r].pc = "idle"
    /\ LET call == inbox[r]
           file == Get(call.args, "file")
       IN  IF call.name \notin ToolNames
           THEN /\ Settle(r, Throw(<<"Unknown tool: ", call.name>>), 0, NoScan)
                /\ UNCHANGED calls
           ELSE IF ~call.hasArgs
           THEN /\ Settle(r, Throw(<<"TypeError: Cannot destructure 'args'">>), 0, NoScan)
                /\ UNCHANGED calls
           ELSE IF file.t # "string"
           THEN /\ Settle(r, Throw(<<"TypeError: The \"paths[0]\" argument must be of type string">>),
                          0, NoScan)
                /\ calls' = [calls EXCEPT ![r].loadPdf = @ + 1]
           ELSE /\ req' = [req EXCEPT ![r].pc = "reading",
                                      ![r].path = resolve(file.v)]
                /\ calls' = [calls EXCEPT ![r].loadPdf = @ + 1,
                                          ![r].readFile = @ + 1]
                /\ UNCHANGED escaped
    /\ UNCHANGED <<fs, inbox, handles, pageCall>>

\* a loader that reads the file a second time when the first read fails
ReadFileDone_Retry(r) ==
    /\ req[r].pc = "reading"
    /\ IF req[r].path \notin DOMAIN fs
       THEN IF calls[r].readFile < 2
            THEN /\ calls' = [calls EXCEPT ![r].readFile = @ + 1]
                 /\ UNCHANGED <<req, escaped>>
            ELSE /\ Settle(r, Throw(<<"ENOENT: no such file or directory">>), 0, NoScan)
                 /\ UNCHANGED calls
       ELSE /\ req' = [req EXCEPT ![r].pc = "parsing"]
            /\ calls' = [calls EXCEPT ![r].pdfParse = @ + 1]
            /\ UNCHANGED escaped
    /\ UNCHANGED <<fs, inbox, handles, pageCall>>

\* fs.readFile settles: rejected, or the buffer is handed to pdfParse.
ReadFileDone(r) ==
    /\ req[r].pc = "reading"
    /\ IF req[r].path \notin DOMAIN fs
       THEN /\ Settle(r, Throw(<<"ENOENT: no such file or directory">>), 0, NoScan)
            /\ UNCHANGED calls
       ELSE /\ req' = [req EXCEPT ![r].pc = "parsing"]
            /\ calls' = [calls EXCEPT ![r].pdfParse = @ + 1]
            /\ UNCHANGED escaped
    /\ UNCHANGED <<fs, inbox, handles, pageCall>>

\* a loader that reads the file again, over and over, when the parser fails
ParseDone_RetryForever(r) ==
    /\ req[r].pc = "parsing"
    /\ LET file == fs[req[r].path]
           call == inbox[r]
           h == Len(handles) + 1
       IN  IF file.kind # "pdf"
           THEN /\ req' = [req EXCEPT ![r].pc = "reading"]
                /\ calls' = [calls EXCEPT ![r].pdfParse = 0]
                /\ UNCHANGED <<handles, escaped>>
           ELSE /\ handles' = Append(handles, [owner |-> r, path |-> req[r].path])
                /\ Settle(r, HandlerResult(call.name, call.args, file), h,
                          IF call.name = "search-pdf"
                          THEN SearchScan(call.args, file) ELSE NoScan)
                /\ UNCHANGED calls
    /\ UNCHANGED <<fs, inbox, pageCall>>

\* a server that keeps the first document it parsed for every later request
ParseDone_SharedDocument(r) ==
    /\ req[r].pc = "parsing"
    /\ LET own == fs[req[r].path]
           file == IF Len(handles) > 0 THEN fs[handles[1].path] ELSE own
           call == inbox[r]
           h == Len(handles) + 1
       IN  IF file.kind # "pdf"
           THEN /\ Settle(r, Throw(<<"Invalid PDF structure">>), 0, NoScan)
                /\ UNCHANGED handles
           ELSE /\ handles' = Append(handles, [owner |-> r, path |-> req[r].path])
                /\ Settle(r, HandlerResult(call.name, call.args, file), h,
                          IF call.name = "search-pdf"
                          THEN SearchScan(call.args, file) ELSE NoScan)
    /\ UNCHANGED <<fs, inbox, calls, pageCall>>

\* a handler that goes on with an empty document when the parser fails
ParseDone_EngineOnFailure(r) ==
    /\ req[r].pc = "parsing"
    /\ LET file == fs[req[r].path]
           call == inbox[r]
           h == Len(handles) + 1
           pdf == IF file.kind # "pdf"
                  THEN [kind |-> "pdf", text |-> <<>>, numpages |-> 0,
                        info |-> Undefined, version |-> Undefined]
                  ELSE file
       IN  /\ handles' = IF file.kind # "pdf" THEN handles
                         ELSE Append(handles, [owner |-> r, path |-> req[r].path])
           /\ Settle(r, HandlerResult(call.name, call.args, pdf),
                     IF file.kind # "pdf" THEN 0 ELSE h,
                     IF call.name = "search-pdf"
                     THEN SearchScan(call.args, pdf) ELSE NoScan)
    /\ UNCHANGED <<fs, inbox, calls, pageCall>>

\* pdfParse settles: rejected, or the handler runs to its return.
ParseDone(r) ==
    /\ req[r].pc = "parsing"
    /\ LET file == fs[req[r].path]
           call == inbox[r]
           h == Len(handles) + 1
       IN  IF file.kind # "pdf"
           THEN /\ Settle(r, Throw(<<"Invalid PDF structure">>), 0, NoScan)
                /\ UNCHANGED handles
           ELSE /\ handles' = Append(handles, [owner |-> r, path |-> req[r].path])
                /\ Settle(r, HandlerResult(call.name, call.args, file), h,
                          IF call.name = "search-pdf"
                          THEN SearchScan(call.args, file) ELSE NoScan)
    /\ UNCHANGED <<fs, inbox, calls, pageCall>>

\* nobody has called parsePageRange
NoPageCall == [pc |-> "none", pageRange |-> Undefined, totalPages |-> 0,
               pages |-> <<>>]

\* a call parsePageRange(pageRange, totalPages) that waits to be run
PageCall(pageRange, totalPages) ==
    [pc |-> "called", pageRange |-> pageRange, totalPages |-> totalPages,
     pages |-> <<>>]

\* parsePageRange runs: it returns its array, or pageRange.split throws
\* because pageRange is no string
ParsePageRange ==
    /\ pageCall.pc = "called"
    /\ pageCall' = IF pageCall.pageRange.t = "string"
                   THEN [pageCall EXCEPT
                            !.pc = "returned",
                            !.pages = parsePageRange(pageCall.pageRange.v,
                                                     pageCall.totalPages)]
                   ELSE [pageCall EXCEPT !.pc = "threw"]
    /\ UNCHANGED <<fs, inbox, req, calls, handles, escaped>>

Next ==
    \/ \E r \in DOMAIN req : CallTool(r)
    \/ \E r \in DOMAIN req : ReadFileDone(r)
    \/ \E r \in DOMAIN req : ParseDone(r)

(***************************************************************************)
(* The world of the dispatcher specification: three paths and the calls    *)
(* a client sends.                                                         *)
(***************************************************************************)
MaxRequests == 2

\* "Hello World\nThe quick brown fox\nHello again"
HelloText ==
    <<"H","e","l","l","o"," ","W","o","r","l","d",NL,
      "T","h","e"," ","q","u","i","c","k"," ","b","r","o","w","n"," ","f","o","x",NL,
      "H","e","l","l","o"," ","a","g","a","i","n">>

\* "Hi\n\nyo \nHi"
ShortText == <<"H","i",NL,NL,"y","o"," ",NL,"H","i">>

Pdf(text, numpages, info, version) ==
    [kind |-> "pdf", text |-> text, numpages |-> numpages,
     info |-> info, version |-> version]

DocPath == <<"doc.pdf">>
NotesPath == <<"/", "notes.txt">>
GonePath == <<"gone.pdf">>

Files ==
    (resolve(DocPath) :> Pdf(ShortText, 1,
                             [t |-> "object", v |-> [Title |-> <<"T">>, Author |-> <<>>]],
                             JsStr(<<"1.10.100">>)))
    @@ (resolve(NotesPath) :> [kind |-> "other"])

Hello == <<"H","e","l","l","o">>
Hi == <<"H","i">>

Call(name, args) == [name |-> name, hasArgs |-> TRUE, args |-> args]
CallNoArgs(name) == [name |-> name, hasArgs |-> FALSE, args |-> [none |-> Undefined]]

Calls ==
    { Call("read-pdf", [file |-> JsStr(DocPath)]),
      Call("read-pdf", [file |-> JsStr(DocPath), clean_text |-> JsBool(TRUE)]),
      Call("read-pdf", [file |-> JsStr(DocPath), clean_text |-> JsBool(FALSE),
                        include_metadata |-> JsBool(TRUE)]),
      Call("read-pdf", [file |-> JsStr(DocPath), pages |-> JsStr(<<"2","-","3">>)]),
      Call("read-pdf", [file |-> JsStr(DocPath), pages |-> JsStr(<<"x">>)]),
      Call("read-pdf", [file |-> JsStr(DocPath), clean_text |-> JsStr(<<"n","o">>)]),
      Call("read-pdf", [file |-> JsStr(GonePath)]),
      Call("read-pdf", [file |-> JsStr(NotesPath)]),
      Call("read-pdf", [file |-> JsNum(5)]),
      Call("search-pdf", [file |-> JsStr(DocPath), query |-> JsStr(Hi)]),
      Call("search-pdf", [file |-> JsStr(DocPath), query |-> JsStr(Hi),
                          case_sensitive |-> JsBool(FALSE),
                          whole_word |-> JsBool(FALSE)]),
      Call("search-pdf", [file |-> JsStr(DocPath)]),
      Call("search-pdf", [file |-> JsStr(DocPath), case_sensitive |-> JsBool(TRUE)]),
      Call("search-pdf", [file |-> JsStr(DocPath), query |-> JsStr(Hi),
                          whole_word |-> JsBool(TRUE)]),
      Call("search-pdf", [file |-> JsStr(DocPath), query |-> JsStr(<<"(">>),
                          whole_word |-> JsBool(TRUE)]),
      Call("search-pdf", [file |-> JsStr(DocPath), query |-> JsStr(Hi),
                          limit |-> JsNum(1)]),
      Call("search-pdf", [file |-> JsStr(DocPath), query |-> JsNum(5),
                          case_sensitive |-> JsBool(TRUE)]),
      Call("search-pdf", [file |-> JsStr(GonePath), query |-> JsStr(Hi)]),
      Call("pdf-metadata", [file |-> JsStr(DocPath)]),
      Call("pdf-metadata", [file |-> JsStr(DocPath), verbose |-> JsBool(TRUE)]),
      Call("pdf-metadata", [file |-> JsStr(NotesPath)]),
      Call("delete-pdf", [file |-> JsStr(DocPath)]),
      CallNoArgs("search-pdf") }

NoCalls == [loadPdf |-> 0, readFile |-> 0, pdfParse |-> 0]

Init ==
    /\ fs = Files
    /\ inbox \in [1..MaxRequests -> Calls]
    /\ req = [r \in 1..MaxRequests |-> IdleRequest]
    /\ calls = [r \in 1..MaxRequests |-> NoCalls]
    /\ handles = <<>>
    /\ escaped = {}
    /\ pageCall = NoPageCall

Spec == Init /\ [][Next]_vars

\* a request waits for its handler, its fs.readFile or its pdfParse
Pending == \E r \in DOMAIN req : req[r].pc # "done"

\* The dispatcher under fairness: while a request is pending, a step is
\* eventually taken (the event loop does not stop, and reads and parses
\* settle).  This is weak fairness of Next, WF_vars(Next), with
\* ENABLED <<Next>>_vars written as the state predicate it amounts to.
Fairness == []<>(~Pending) \/ []<><<Next>>_vars

SpecLive == Init /\ [][Next]_vars /\ Fairness

(***************************************************************************)
(* The repetition specification: the first call is sent again as the third *)
(* request, with any call as the second.                                   *)
(***************************************************************************)
InitRepeat ==
    /\ fs = Files
    /\ inbox \in {<<c, d, c>> : c \in Calls, d \in Calls}
    /\ req = <<IdleRequest, IdleRequest, IdleRequest>>
    /\ calls = <<NoCalls, NoCalls, NoCalls>>
    /\ handles = <<>>
    /\ escaped = {}
    /\ pageCall = NoPageCall

SpecRepeat == InitRepeat /\ [][Next]_vars

(***************************************************************************)
(* The search specification: one search-pdf request against one document,  *)
(* the document text, the query and the two flags drawn from bounded sets. *)
(***************************************************************************)
MaxTextLen == 4
MaxQueryLen == 2
MaxContextTextLines == 7
MaxPatternLen == 2

Strings(alphabet, n) == UNION {[1..k -> alphabet] : k \in 0..n}
LineLists(lineSet, n) == UNION {[1..k -> lineSet] : k \in 1..n}

SearchInput(text, query, case_sensitive, whole_word) ==
    [text |-> text, query |-> query,
     case_sensitive |-> case_sensitive, whole_word |-> whole_word]

\* every text and query over a small alphabet, under every policy
GridInputs ==
    {SearchInput(t, q, cs, ww) :
        t \in Strings({"a", "A", " ", NL}, MaxTextLen),
        q \in Strings({"a", "A"}, MaxQueryLen),
        cs \in BOOLEAN, ww \in BOOLEAN}

\* texts of many short lines, for the context window
ContextInputs ==
    {SearchInput(join(ls), <<"a">>, cs, FALSE) :
        ls \in LineLists({<<"a">>, <<"b">>}, MaxContextTextLines),
        cs \in BOOLEAN}

\* queries that hold pattern syntax, under the whole-word policy
PatternInputs ==
    {SearchInput(t, q, cs, TRUE) :
        t \in Strings({"a", " "}, 2),
        q \in Strings({BS, "W", "w", "(", "."}, MaxPatternLen),
        cs \in BOOLEAN}

FooBarFoo == <<"f","o","o",NL,"b","a","r",NL,"f","o","o">>
CategoryCat ==
    <<"c","a","t","e","g","o","r","y",NL,"t","h","e"," ","c","a","t"," ","s","a","t">>
LowerUpperAI == <<"a","i",NL,"A","I">>
ExampleTexts == {FooBarFoo, CategoryCat, LowerUpperAI, HelloText}
ExampleQueries ==
    { <<"f","o","o">>, <<"c","a","t">>, <<"A","I">>, Hello }
ExampleInputs ==
    {SearchInput(t, q, cs, ww) :
        t \in ExampleTexts, q \in ExampleQueries, cs \in BOOLEAN, ww \in BOOLEAN}

SearchInputs == GridInputs \cup ContextInputs \cup PatternInputs \cup ExampleInputs

SearchDocPath == <<"/", "search.pdf">>

InitSearch ==
    /\ \E in \in SearchInputs :
         /\ fs = (SearchDocPath :> Pdf(in.text, 1, Undefined, Undefined))
         /\ inbox = <<Call("search-pdf",
                           [file |-> JsStr(SearchDocPath),
                            query |-> JsStr(in.query),
                            case_sensitive |-> JsBool(in.case_sensitive),
                            whole_word |-> JsBool(in.whole_word)])>>
    /\ req = <<IdleRequest>>
    /\ calls = <<NoCalls>>
    /\ handles = <<>>
    /\ escaped = {}
    /\ pageCall = NoPageCall

SpecSearch == InitSearch /\ [][Next]_vars

(***************************************************************************)
(* The line-break specification: one search-pdf request under the          *)
(* substring policy whose query holds a newline.                           *)
(***************************************************************************)
\* every text over a letter, a blank and a newline, and every query over a
\* letter and a newline that holds a newline
NewlineInputs ==
    {SearchInput(t, q, cs, FALSE) :
        t \in Strings({"a", " ", NL}, MaxTextLen),
        q \in {x \in Strings({"a", NL}, MaxQueryLen) :
                  \E i \in 1..Len(x) : x[i] = NL},
        cs \in BOOLEAN}

InitNewline ==
    /\ \E in \in NewlineInputs :
         /\ fs = (SearchDocPath :> Pdf(in.text, 1, Undefined, Undefined))
         /\ inbox = <<Call("search-pdf",
                           [file |-> JsStr(SearchDocPath),
                            query |-> JsStr(in.query),
                            case_sensitive |-> JsBool(in.case_sensitive),
                            whole_word |-> JsBool(in.whole_word)])>>
    /\ req = <<IdleRequest>>
    /\ calls = <<NoCalls>>
    /\ handles = <<>>
    /\ escaped = {}
    /\ pageCall = NoPageCall

SpecNewline == InitNewline /\ [][Next]_vars

(***************************************************************************)
(* The cleaning specification: one read-pdf request with clean_text set,   *)
(* the document text drawn from a bounded set.                             *)
(***************************************************************************)
MaxCleanTextLen == 5

\* every text over a letter, a space, a newline and a tab, and the example
CleanTexts == Strings({"a", " ", NL, "\t"}, MaxCleanTextLen) \cup {HelloText}

CleanDocPath == <<"/", "clean.pdf">>

InitClean ==
    /\ \E text \in CleanTexts, include_metadata \in BOOLEAN :
         /\ fs = (CleanDocPath :> Pdf(text, 1, Undefined, Undefined))
         /\ inbox = <<Call("read-pdf",
                           [file |-> JsStr(CleanDocPath),
                            clean_text |-> JsBool(TRUE),
                            include_metadata |-> JsBool(include_metadata)])>>
    /\ req = <<IdleRequest>>
    /\ calls = <<NoCalls>>
    /\ handles = <<>>
    /\ escaped = {}
    /\ pageCall = NoPageCall

SpecClean == InitClean /\ [][Next]_vars

(***************************************************************************)
(* The metadata specification: one pdf-metadata request, the parser's info *)
(* mapping and version drawn from bounded sets.                            *)
(***************************************************************************)
InfoKeys == {"Title", "Author", "Subject", "Keywords", "Creator", "Producer",
             "CreationDate", "ModDate"}

\* every info mapping whose keys are absent, empty or set; or no mapping
InfoMappings ==
    {[t |-> "object", v |-> m] :
        m \in UNION {[S -> {<<>>, <<"x">>}] : S \in SUBSET InfoKeys}}
    \cup {Undefined, Null}

Versions == {Undefined, JsStr(<<>>), JsStr(<<"1.10.100">>)}

MetaDocPath == <<"/", "meta.pdf">>

InitMetadata ==
    /\ \E info \in InfoMappings, version \in Versions :
         fs = (MetaDocPath :> Pdf(<<>>, 1, info, version))
    /\ inbox = <<Call("pdf-metadata", [file |-> JsStr(MetaDocPath)])>>
    /\ req = <<IdleRequest>>
    /\ calls = <<NoCalls>>
    /\ handles = <<>>
    /\ escaped = {}
    /\ pageCall = NoPageCall

SpecMetadata == InitMetadata /\ [][Next]_vars

(***************************************************************************)
(* The reading specification: one read-pdf request, its two flags absent,  *)
(* false or true, the document's text, page count and info mapping drawn   *)
(* from bounded sets.                                                      *)
(***************************************************************************)
ReadInfoKeys == {"Title", "Author", "Creator", "Producer"}

\* every info mapping whose four keys are absent, empty or set; or no mapping
ReadInfoMappings ==
    {[t |-> "object", v |-> m] :
        m \in UNION {[S -> {<<>>, <<"x">>}] : S \in SUBSET ReadInfoKeys}}
    \cup {Undefined, Null}

\* the empty text, the two examples and " a\n\n\na\t "
ReadTexts == {<<>>, HelloText, ShortText, <<" ", "a", NL, NL, NL, "a", "\t", " ">>}

ReadPageCounts == {1, 12}

ReadDocPath == <<"/", "read.pdf">>

\* the bag {file} with the flags the client chose to send
ReadFlagBags ==
    {[file |-> JsStr(ReadDocPath)] @@ flags :
        flags \in UNION {[S -> {JsBool(FALSE), JsBool(TRUE)}] :
                            S \in SUBSET {"clean_text", "include_metadata"}}}

InitRead ==
    /\ \E text \in ReadTexts, n \in ReadPageCounts, info \in ReadInfoMappings :
         fs = (ReadDocPath :> Pdf(text, n, info, Undefined))
    /\ \E args \in ReadFlagBags : inbox = <<Call("read-pdf", args)>>
    /\ req = <<IdleRequest>>
    /\ calls = <<NoCalls>>
    /\ handles = <<>>
    /\ escaped = {}
    /\ pageCall = NoPageCall

SpecRead == InitRead /\ [][Next]_vars

(***************************************************************************)
(* The page-range specification: one direct call of parsePageRange, the    *)
(* expression and the number of pages drawn from bounded sets.             *)
(***************************************************************************)
MaxExprLen == 4
MaxPageCount == 3
MaxPrefixedLen == 3

\* every expression over digits, separators, a blank and a letter
GridExprs == Strings({"0", "1", "2", ",", "-", " ", "a"}, MaxExprLen)

\* numerals with a sign or a hexadecimal prefix
PrefixedExprs == Strings({"0", "1", "x", "+", "A"}, MaxPrefixedLen)

\* "3,1-4,2", "2-4", "5-3", "1,3,5" and " 2 - 4 , 7 "
ExamplePageCalls ==
    { PageCall(JsStr(<<"3",",","1","-","4",",","2">>), 10),
      PageCall(JsStr(<<"2","-","4">>), 10),
      PageCall(JsStr(<<"5","-","3">>), 10),
      PageCall(JsStr(<<"1",",","3",",","5">>), 2),
      PageCall(JsStr(<<" ","2"," ","-"," ","4"," ",","," ","7"," ">>), 5) }

\* the calls of the page-range specification; two of them pass no string
PageCalls ==
    {PageCall(JsStr(e), n) : e \in GridExprs \cup PrefixedExprs \cup {All},
                             n \in 0..MaxPageCount}
    \cup {PageCall(v, n) : v \in {Undefined, JsNum(2)}, n \in 0..MaxPageCount}
    \cup ExamplePageCalls

InitPages ==
    /\ fs = <<>>
    /\ inbox = <<>>
    /\ req = <<>>
    /\ calls = <<>>
    /\ handles = <<>>
    /\ escaped = {}
    /\ pageCall \in PageCalls

NextPages == ParsePageRange

SpecPages == InitPages /\ [][NextPages]_vars

(***************************************************************************)
(* Properties of the dispatcher                                            *)
(***************************************************************************)
Requests == DOMAIN req
Done(r) == req[r].pc = "done"

\* the envelope of a failure: isError = true and one text item "Error: <message>"
IsErrorEnvelope(e) ==
    /\ DOMAIN e = {"content", "isError"}
    /\ e.isError = TRUE
    /\ Len(e.content) = 1
    /\ e.content[1].type = "text"
    /\ Len(e.content[1].text) >= 2
    /\ e.content[1].text[1] = "Error: "

\* the argument bag of a call meets the schema declared for its tool
ConformsToSchema(call) ==
    /\ call.name \in ToolNames
    /\ call.hasArgs
    /\ LET schema == InputSchema(call.name)
       IN  /\ schema.required \subseteq DOMAIN call.args
           /\ DOMAIN call.args \subseteq DOMAIN schema.properties
           /\ \A f \in DOMAIN call.args : call.args[f].t = schema.properties[f]

\* C1: a search-pdf request whose argument bag has no `query` never invokes
\* the loader (neither loadPdf nor fs.readFile), and ends in an error envelope.
C1_NoQueryNeverLoads ==
    \A r \in Requests :
        (/\ inbox[r].name = "search-pdf"
         /\ inbox[r].hasArgs
         /\ "query" \notin DOMAIN inbox[r].args)
        => /\ calls[r].loadPdf = 0
           /\ calls[r].readFile = 0
           /\ Done(r) => IsErrorEnvelope(req[r].result)

\* an argument bag with a field outside the declared set, or with a declared
\* field of the wrong type
HasUndeclaredOrMistypedField(call) ==
    /\ call.name \in ToolNames
    /\ call.hasArgs
    /\ \E f \in DOMAIN call.args :
          \/ f \notin DOMAIN InputSchema(call.name).properties
          \/ call.args[f].t # InputSchema(call.name).properties[f]

\* C2: a bag with an undeclared field or a mistyped declared field is rejected
\* with an error envelope, and no handler runs on it (no load, no document,
\* no scan, no success payload).
C2_InvalidBagRejected ==
    \A r \in Requests :
        (HasUndeclaredOrMistypedField(inbox[r]) /\ Done(r))
        => /\ calls[r].readFile = 0
           /\ calls[r].pdfParse = 0
           /\ req[r].handle = 0
           /\ ~req[r].scan.ran
           /\ IsErrorEnvelope(req[r].result)

\* the causes of failure of a tool call, read off its input and the files
FailsBeforeLoad(r) ==
    \/ inbox[r].name \notin ToolNames
    \/ ~inbox[r].hasArgs
    \/ Get(inbox[r].args, "file").t # "string"
FailsInLoad(r) ==
    /\ ~FailsBeforeLoad(r)
    /\ \/ resolve(inbox[r].args.file.v) \notin DOMAIN fs
       \/ fs[resolve(inbox[r].args.file.v)].kind # "pdf"
FailsInEngine(r) ==
    /\ ~FailsBeforeLoad(r)
    /\ ~FailsInLoad(r)
    /\ Len(req[r].scan.threw) > 0

\* C3: every failure of a tool call (unknown tool, no arguments, unreadable
\* file, parser failure, exception in the engine) ends in an envelope with
\* isError = true and one text item "Error: <message>"; no exception leaves
\* the call handler.
C3_FailuresCaught ==
    /\ escaped = {}
    /\ \A r \in Requests :
          Done(r) /\ (FailsBeforeLoad(r) \/ FailsInLoad(r) \/ FailsInEngine(r))
          => IsErrorEnvelope(req[r].result)

\* C3 witness: failures of every kind have been answered
C3_Witness ==
    /\ \A r \in Requests : Done(r) /\ IsErrorEnvelope(req[r].result)
    /\ \E r \in Requests : FailsInLoad(r)
    /\ \E r \in Requests : FailsInEngine(r)

\* the number of requests that work on Document Handle h
UsersOf(h) == Cardinality({r \in Requests : req[r].handle = h})

\* C4: a request invokes the loader at most once (no retry), a finished
\* request with a usable file argument has invoked it exactly once, and the
\* Document Handle of a request was produced by that request's own parse
\* and serves no other request.
C4_LoadedExactlyOnce ==
    \A r \in Requests :
        /\ calls[r].loadPdf <= 1
        /\ calls[r].readFile <= 1
        /\ calls[r].pdfParse <= 1
        /\ (Done(r) /\ ~FailsBeforeLoad(r))
           => calls[r].loadPdf = 1 /\ calls[r].readFile = 1
        /\ (Done(r) /\ ~FailsBeforeLoad(r) /\ ~FailsInLoad(r))
           => /\ calls[r].pdfParse = 1
              /\ req[r].handle \in 1..Len(handles)
        /\ req[r].handle # 0
           => /\ handles[req[r].handle].owner = r
              /\ UsersOf(req[r].handle) = 1

\* C4 witness: two finished requests with conforming bags on the same file,
\* each with a handle of its own
C4_Witness ==
    /\ \E r1, r2 \in Requests :
          /\ r1 # r2
          /\ ConformsToSchema(inbox[r1]) /\ ConformsToSchema(inbox[r2])
          /\ Done(r1) /\ Done(r2)
          /\ req[r1].path = req[r2].path
          /\ req[r1].handle # 0 /\ req[r2].handle # 0
          /\ req[r1].handle # req[r2].handle

(***************************************************************************)
(* Properties of the search                                                *)
(***************************************************************************)
\* a search-pdf request whose scan ran to its end
Searched(r) ==
    /\ inbox[r].name = "search-pdf"
    /\ Done(r)
    /\ req[r].scan.ran
    /\ Len(req[r].scan.threw) = 0
    /\ Get(inbox[r].args, "query").t = "string"

QueryOf(r) == inbox[r].args.query.v
CaseSensitiveOf(r) == Truthy(Default(Get(inbox[r].args, "case_sensitive"), JsBool(FALSE)))
WholeWordOf(r) == Truthy(Default(Get(inbox[r].args, "whole_word"), JsBool(FALSE)))
LinesOf(r) == split(fs[req[r].path].text)
MatchesOf(r) == req[r].scan.matches
MatchedLines(r) == {MatchesOf(r)[i].line : i \in 1..Len(MatchesOf(r))}

\* the same character, or with fold the same letter in either case
SameLetter(c, d, fold) ==
    \/ c = d
    \/ fold /\ \E i \in 1..26 : {c, d} = {UpperLetters[i], LowerLetters[i]}

\* q occurs in line at the 1-based index i
OccursAt(line, q, i, fold) ==
    /\ i >= 1
    /\ i + Len(q) - 1 <= Len(line)
    /\ \A j \in 1..Len(q) : SameLetter(line[i + j - 1], q[j], fold)

Contains(line, q, fold) == \E i \in 1..(Len(line) + 1) : OccursAt(line, q, i, fold)

WordLike(c) ==
    \/ \E i \in 1..26 : c \in {UpperLetters[i], LowerLetters[i]}
    \/ \E i \in 1..10 : c = Digits[i]
    \/ c = "_"

\* the n characters of line from index i on have no word character next to them
DelimitedAt(line, i, n) ==
    /\ i = 1 \/ ~WordLike(line[i - 1])
    /\ i + n - 1 = Len(line) \/ ~WordLike(line[i + n])

ToUpperCase(s) ==
    [j \in 1..Len(s) |->
        IF \E i \in 1..26 : LowerLetters[i] = s[j]
        THEN UpperLetters[CHOOSE i \in 1..26 : LowerLetters[i] = s[j]]
        ELSE s[j]]
ToLowerCase(s) ==
    [j \in 1..Len(s) |->
        IF \E i \in 1..26 : UpperLetters[i] = s[j]
        THEN LowerLetters[CHOOSE i \in 1..26 : UpperLetters[i] = s[j]]
        ELSE s[j]]

\* C5: under the substring policy line k is reported if and only if it holds
\* the query as a literal substring, letter case ignored unless
\* case_sensitive is set.
C5_SubstringSoundComplete ==
    \A r \in Requests :
        (Searched(r) /\ ~WholeWordOf(r))
        => \A k \in 1..Len(LinesOf(r)) :
              (k \in MatchedLines(r))
              <=> Contains(LinesOf(r)[k], QueryOf(r), ~CaseSensitiveOf(r))

\* C5 witness: lines "foo", "bar", "foo" searched for "foo" give lines 1 and 3
C5_Witness ==
    \E r \in Requests :
        /\ Searched(r) /\ ~WholeWordOf(r) /\ ~CaseSensitiveOf(r)
        /\ fs[req[r].path].text = FooBarFoo
        /\ QueryOf(r) = <<"f","o","o">>
        /\ Len(MatchesOf(r)) = 2
        /\ MatchesOf(r)[1].line = 1 /\ MatchesOf(r)[2].line = 3

\* C6: the matches are strictly increasing by line, every matching line has
\* exactly one entry and every other line none; adjacent matching lines are
\* separate entries.
C6_OrderedOnePerMatchingLine ==
    \A r \in Requests :
        Searched(r)
        => /\ \A i, j \in 1..Len(MatchesOf(r)) :
                 i < j => MatchesOf(r)[i].line < MatchesOf(r)[j].line
           /\ MatchedLines(r) \subseteq 1..Len(LinesOf(r))
           /\ \A k \in 1..Len(LinesOf(r)) :
                 Cardinality({i \in 1..Len(MatchesOf(r)) : MatchesOf(r)[i].line = k})
                 = IF isMatch(LinesOf(r)[k], inbox[r].args.query,
                              CaseSensitiveOf(r), WholeWordOf(r))
                   THEN 1 ELSE 0

\* C6 witness: three matching lines in a row, reported as three entries
C6_Witness ==
    \E r \in Requests :
        /\ Searched(r)
        /\ \E i \in 1..Len(MatchesOf(r)) :
              /\ i + 2 <= Len(MatchesOf(r))
              /\ MatchesOf(r)[i + 1].line = MatchesOf(r)[i].line + 1
              /\ MatchesOf(r)[i + 2].line = MatchesOf(r)[i].line + 2
              /\ MatchesOf(r)[i].context # MatchesOf(r)[i + 1].context

\* C7: the excerpt of a match at the 0-based index i is the lines
\* max(0, i-2) .. min(lineCount, i+3)-1 joined with newlines.
C7_ExcerptWindow ==
    \A r \in Requests :
        Searched(r)
        => \A m \in 1..Len(MatchesOf(r)) :
              LET i == MatchesOf(r)[m].line - 1
                  lineCount == Len(LinesOf(r))
                  lo == IF i - 2 > 0 THEN i - 2 ELSE 0
                  hi == IF i + 3 < lineCount THEN i + 3 ELSE lineCount
              IN  split(MatchesOf(r)[m].context)
                  = [k \in 1..(hi - lo) |-> LinesOf(r)[lo + k]]

\* C7 witness: a match in the middle of seven lines, whose excerpt leaves out
\* the first and the last line and holds a matching and a non-matching neighbour
C7_Witness ==
    \E r \in Requests :
        /\ Searched(r)
        /\ Len(LinesOf(r)) = 7
        /\ 4 \in MatchedLines(r)
        /\ 3 \in MatchedLines(r)
        /\ 5 \notin MatchedLines(r)
        /\ \E m \in 1..Len(MatchesOf(r)) :
              /\ MatchesOf(r)[m].line = 4
              /\ Len(split(MatchesOf(r)[m].context)) = 5

\* a query of word characters only
WordQuery(q) == Len(q) > 0 /\ \A j \in 1..Len(q) : WordLike(q[j])

\* C8: under the whole-word policy a line matches exactly where the query
\* occurs with no word character on either side; the raw line is tested.
C8_WholeWordBoundaries ==
    \A r \in Requests :
        (Searched(r) /\ WholeWordOf(r) /\ WordQuery(QueryOf(r)))
        => \A k \in 1..Len(LinesOf(r)) :
              (k \in MatchedLines(r))
              <=> \E i \in 1..Len(LinesOf(r)[k]) :
                     /\ OccursAt(LinesOf(r)[k], QueryOf(r), i, ~CaseSensitiveOf(r))
                     /\ DelimitedAt(LinesOf(r)[k], i, Len(QueryOf(r)))

\* C8 witness: "cat" matches "the cat sat" and not "category"
C8_Witness ==
    \E r \in Requests :
        /\ Searched(r) /\ WholeWordOf(r) /\ CaseSensitiveOf(r)
        /\ fs[req[r].path].text = CategoryCat
        /\ QueryOf(r) = <<"c","a","t">>
        /\ MatchedLines(r) = {2}

\* a query without pattern syntax: word characters and spaces
PlainQuery(q) == \A j \in 1..Len(q) : WordLike(q[j]) \/ q[j] = " "

\* C9: with case_sensitive set a line matches only if it holds the query in
\* the same letter case; without it the outcome for a line is the same for
\* the query and the line in lower case and in upper case, under both policies.
C9_CaseToggle ==
    \A r \in Requests :
        Searched(r)
        => \A k \in 1..Len(LinesOf(r)) :
              LET line == LinesOf(r)[k]
                  q == QueryOf(r)
                  Outcome(l, x) == isMatch(l, JsStr(x), FALSE, WholeWordOf(r))
              IN  IF CaseSensitiveOf(r)
                  THEN (PlainQuery(q) /\ k \in MatchedLines(r))
                       => Contains(line, q, FALSE)
                  ELSE /\ (k \in MatchedLines(r))
                          <=> Outcome(ToLowerCase(line), ToLowerCase(q))
                       /\ (k \in MatchedLines(r))
                          <=> Outcome(ToUpperCase(line), ToUpperCase(q))
                       /\ (k \in MatchedLines(r))
                          <=> Outcome(ToLowerCase(line), ToUpperCase(q))
                       /\ (k \in MatchedLines(r))
                          <=> Outcome(ToUpperCase(line), ToLowerCase(q))

\* C9 witness: case-sensitive "AI" matches the line "AI" and not the line "ai"
C9_Witness ==
    \E r \in Requests :
        /\ Searched(r) /\ CaseSensitiveOf(r) /\ WholeWordOf(r)
        /\ fs[req[r].path].text = LowerUpperAI
        /\ QueryOf(r) = <<"A","I">>
        /\ MatchedLines(r) = {2}

\* C10: under the whole-word policy the pattern tested is the caller's query
\* as it is between two word-boundary markers, whatever case_sensitive is;
\* case_sensitive decides the flag only.  The lines reported are then the
\* lines that pattern accepts.
C10_VerbatimPatternDecides ==
    \A r \in Requests :
        (Searched(r) /\ req[r].scan.regex)
        => \A k \in 1..Len(LinesOf(r)) :
              (k \in MatchedLines(r))
              <=> test(RegExp(<<BS, "b">> \o QueryOf(r) \o <<BS, "b">>,
                              IF CaseSensitiveOf(r) THEN "" ELSE "i"),
                       LinesOf(r)[k])

\* C11: once the document is loaded and parsed, a search-pdf request with a
\* string query cannot fail, whatever the query and the two flags are: the
\* scan throws nothing and the result is no error envelope.
C11_SearchCannotFailAfterLoad ==
    \A r \in Requests :
        (/\ inbox[r].name = "search-pdf"
         /\ Done(r)
         /\ req[r].handle # 0
         /\ Get(inbox[r].args, "query").t = "string")
        => /\ Len(req[r].scan.threw) = 0
           /\ ~IsErrorEnvelope(req[r].result)

\* the text of a search result without a match
NoMatchText(query, file) ==
    <<"Found ", "0", " match(es) for \"">> \o query
    \o <<"\" in ">> \o file \o <<"\n\n", "No matches found.">>

\* C12: a search whose scan finds no matching line has an empty match
\* sequence and a success result whose text is 'Found 0 match(es) for
\* "<query>" in <file>', a blank line and 'No matches found.'.
C12_NoMatchIsSuccess ==
    \A r \in Requests :
        (/\ Searched(r)
         /\ \A k \in 1..Len(LinesOf(r)) :
               ~isMatch(LinesOf(r)[k], inbox[r].args.query,
                        CaseSensitiveOf(r), WholeWordOf(r)))
        => /\ MatchesOf(r) = <<>>
           /\ req[r].result
              = [content |-> <<[type |-> "text",
                                text |-> NoMatchText(QueryOf(r),
                                                     inbox[r].args.file.v)]>>]

\* C12 witness: "Hello World..." searched for "foo" under the substring
\* policy: no line matches and the request is answered
C12_Witness ==
    \E r \in Requests :
        /\ Searched(r) /\ ~WholeWordOf(r)
        /\ fs[req[r].path].text = HelloText
        /\ QueryOf(r) = <<"f","o","o">>
        /\ MatchesOf(r) = <<>>
        /\ ~IsErrorEnvelope(req[r].result)

\* every pattern the inputs of the search specification build is within the
\* modelled part of the pattern language
PatternsModelled ==
    \A r \in Requests :
        (Done(r) /\ req[r].scan.regex)
        => CompileFrom(req[r].scan.source, 1).ok # "unsupported"

(***************************************************************************)
(* Properties of parsePageRange                                            *)
(***************************************************************************)
\* the call has returned the array of a string expression
Returned == pageCall.pc = "returned"
ExprOf == pageCall.pageRange.v
PageCountOf == pageCall.totalPages
PagesOf == pageCall.pages
PageSet == {PagesOf[k] : k \in 1..Len(PagesOf)}
Tokens == splitOn(ExprOf, ",")

\* C13: every page number of the result is at least 1 and at most the number
\* of pages, for every expression and every number of pages.
C13_PagesWithinDocument ==
    Returned => \A k \in 1..Len(PagesOf) :
                    PagesOf[k] >= 1 /\ PagesOf[k] <= PageCountOf

\* C14: the expression "all" gives exactly 1, 2, ..., pageCount in order,
\* and the empty sequence for 0 pages.
C14_AllIsEveryPage ==
    (Returned /\ ExprOf = <<"a", "l", "l">>)
    => /\ Len(PagesOf) = PageCountOf
       /\ \A k \in 1..Len(PagesOf) : PagesOf[k] = k

\* C14 witness: "all" with three pages has returned 1, 2, 3
C14_Witness ==
    /\ Returned
    /\ ExprOf = <<"a", "l", "l">>
    /\ PageCountOf = 3
    /\ PagesOf = <<1, 2, 3>>

\* C15: the result of a comma-separated expression is strictly ascending
\* (sorted, without duplicates), whatever the order and overlap of its tokens.
C15_StrictlyAscending ==
    Returned => \A i, j \in 1..Len(PagesOf) : i < j => PagesOf[i] < PagesOf[j]

\* C15 witness: "3,1-4,2" with 10 pages has returned 1, 2, 3, 4
C15_Witness ==
    /\ Returned
    /\ ExprOf = <<"3", ",", "1", "-", "4", ",", "2">>
    /\ PageCountOf = 10
    /\ PagesOf = <<1, 2, 3, 4>>

\* a decimal numeral and its value
IsNumeral(s) ==
    Len(s) > 0 /\ \A i \in 1..Len(s) : \E d \in 1..10 : Digits[d] = s[i]
RECURSIVE NumeralValue(_)
NumeralValue(s) ==
    IF Len(s) = 0 THEN 0
    ELSE 10 * NumeralValue(SubSeq(s, 1, Len(s) - 1))
         + (CHOOSE d \in 1..10 : Digits[d] = s[Len(s)]) - 1

\* a token start-end of two numerals
DashOf(tok) == CHOOSE d \in 1..Len(tok) : tok[d] = "-"
IsRangeToken(tok) ==
    /\ \E d \in 1..Len(tok) : tok[d] = "-"
    /\ IsNumeral(SubSeq(tok, 1, DashOf(tok) - 1))
    /\ IsNumeral(SubSeq(tok, DashOf(tok) + 1, Len(tok)))
StartOf(tok) == NumeralValue(SubSeq(tok, 1, DashOf(tok) - 1))
EndOf(tok) == NumeralValue(SubSeq(tok, DashOf(tok) + 1, Len(tok)))

\* the pages i with start <= i <= min(end, pageCount)
RangeContribution(tok, pageCount) ==
    {i \in StartOf(tok)..EndOf(tok) : i <= pageCount}

\* C16: a range token start-end contributes exactly the pages i with
\* start <= i <= min(end, pageCount), and none when start > pageCount or
\* start > end: each such token's pages are in the result, and the result of
\* an expression made of range tokens only is the union of their pages.
C16_RangeTokenPages ==
    (Returned /\ ExprOf # <<"a", "l", "l">>)
    => /\ \A t \in 1..Len(Tokens) :
             IsRangeToken(Tokens[t])
             => RangeContribution(Tokens[t], PageCountOf) \subseteq PageSet
       /\ (\A t \in 1..Len(Tokens) : IsRangeToken(Tokens[t]))
          => PageSet = UNION {RangeContribution(Tokens[t], PageCountOf) :
                                 t \in 1..Len(Tokens)}

\* C16 witness: "2-4" with 10 pages has returned 2, 3, 4
C16_Witness ==
    /\ Returned
    /\ ExprOf = <<"2", "-", "4">>
    /\ PageCountOf = 10
    /\ PagesOf = <<2, 3, 4>>

\* C17: a call with a string expression never throws; in an expression
\* without a range token the result holds exactly the numbers its tokens
\* parse to that are <= pageCount; an expression that is one token parsing
\* to NaN or to a negative number gives no page.
C17_NoErrorSingleTokens ==
    /\ pageCall.pc = "threw" => pageCall.pageRange.t # "string"
    /\ (Returned /\ ExprOf # <<"a", "l", "l">>)
       => /\ (\A i \in 1..Len(ExprOf) : ExprOf[i] # "-")
             => PageSet = {parseInt(Tokens[t]).v :
                              t \in {u \in 1..Len(Tokens) :
                                        /\ ~IsNaN(parseInt(Tokens[u]))
                                        /\ parseInt(Tokens[u]).v <= PageCountOf}}
          /\ (/\ Len(Tokens) = 1
              /\ \/ IsNaN(parseInt(ExprOf))
                 \/ parseInt(ExprOf).v < 0)
             => PagesOf = <<>>

\* C17 witness: "1,3,5" with 2 pages has returned 1 alone
C17_Witness ==
    /\ Returned
    /\ ExprOf = <<"1", ",", "3", ",", "5">>
    /\ PageCountOf = 2
    /\ PagesOf = <<1>>

(***************************************************************************)
(* Properties of cleanText                                                 *)
(***************************************************************************)
\* a read-pdf request with clean_text set that was answered from its document
ReadClean(r) ==
    /\ inbox[r].name = "read-pdf"
    /\ Done(r)
    /\ req[r].handle # 0
    /\ Truthy(Get(inbox[r].args, "clean_text"))

TextOf(r) == fs[req[r].path].text

\* the cleaned text in the answer: what stands between the heading and the
\* metadata block (or the end)
CleanedOf(r) ==
    LET t == req[r].result.content[1].text
        IsBlock(i) == t[i] = "\n\n--- PDF Metadata ---"
        stop == IF \E i \in 1..Len(t) : IsBlock(i)
                THEN CHOOSE i \in 1..Len(t) : IsBlock(i)
                ELSE Len(t) + 1
    IN  SubSeq(t, 2, stop - 1)

\* C18: cleaning is idempotent: cleaning the cleaned text of an answer gives
\* that text again.
C18_CleanIdempotent ==
    \A r \in Requests :
        ReadClean(r) => cleanText(CleanedOf(r)) = CleanedOf(r)

\* C18 witness: "a\n\n\na" was cleaned to "a a"
C18_Witness ==
    \E r \in Requests :
        /\ ReadClean(r)
        /\ TextOf(r) = <<"a", NL, NL, NL, "a">>
        /\ CleanedOf(r) = <<"a", " ", "a">>

\* the words of x from index i on, joined by one space each
RECURSIVE WordsFrom(_, _, _, _)
WordsFrom(x, i, started, gap) ==
    IF i > Len(x) THEN <<>>
    ELSE IF IsSpaceChar(x[i]) THEN WordsFrom(x, i + 1, started, TRUE)
    ELSE (IF started /\ gap THEN <<" ", x[i]>> ELSE <<x[i]>>)
         \o WordsFrom(x, i + 1, TRUE, FALSE)

\* C19: the cleaned text has no newline, no two white-space characters in a
\* row and no white space at its ends; collapsing runs of three or more
\* newlines changes nothing after the white-space collapse; the cleaned text
\* is the words of the text joined by single spaces.
C19_CleanedShape ==
    \A r \in Requests :
        ReadClean(r)
        => LET out == CleanedOf(r)
               collapsed == CollapseWhitespace(TextOf(r), 1)
           IN  /\ \A i \in 1..Len(out) : out[i] # NL
               /\ \A i \in 1..(Len(out) - 1) :
                     ~(IsSpaceChar(out[i]) /\ IsSpaceChar(out[i + 1]))
               /\ Len(out) > 0
                  => ~IsSpaceChar(out[1]) /\ ~IsSpaceChar(out[Len(out)])
               /\ CollapseNewlines(collapsed, 1) = collapsed
               /\ out = WordsFrom(TextOf(r), 1, FALSE, FALSE)

\* C19 witness: "Hello World\nThe quick brown fox\nHello again" was cleaned
\* to the single line "Hello World The quick brown fox Hello again"
C19_Witness ==
    \E r \in Requests :
        /\ ReadClean(r)
        /\ TextOf(r) = HelloText
        /\ CleanedOf(r) = [i \in 1..Len(HelloText) |->
                              IF HelloText[i] = NL THEN " " ELSE HelloText[i]]

(***************************************************************************)
(* Properties of the metadata report                                       *)
(***************************************************************************)
\* a pdf-metadata request that was answered from its document
Reported(r) ==
    /\ inbox[r].name = "pdf-metadata"
    /\ Done(r)
    /\ req[r].handle # 0

ReportOf(r) == req[r].result.content[1].text

\* the label is printed exactly once in the report
ShownOnce(t, label) == Cardinality({i \in 1..Len(t) : t[i] = label}) = 1

\* what the report prints after the label, up to the end of the line
ValueAfter(t, label) ==
    LET i == CHOOSE k \in 1..Len(t) : t[k] = label
        IsEnd(j) == j > i /\ t[j] = "\n"
        stop == IF \E j \in 1..Len(t) : IsEnd(j)
                THEN CHOOSE j \in 1..Len(t) :
                         IsEnd(j) /\ \A k \in (i + 1)..(j - 1) : t[k] # "\n"
                ELSE Len(t) + 1
    IN  SubSeq(t, i + 1, stop - 1)

\* the eight fields of the report: label and info key
ReportFields ==
    { <<"  Title: ", "Title">>, <<"  Author: ", "Author">>,
      <<"  Subject: ", "Subject">>, <<"  Keywords: ", "Keywords">>,
      <<"  Creator: ", "Creator">>, <<"  Producer: ", "Producer">>,
      <<"  Creation Date: ", "CreationDate">>,
      <<"  Modification Date: ", "ModDate">> }

\* the info key is absent or empty in the document (or there is no mapping)
Unavailable(doc, key) ==
    \/ doc.info.t # "object"
    \/ key \notin DOMAIN doc.info.v
    \/ doc.info.v[key] = <<>>

\* C20: the report of pdf-metadata shows each of the eight fields exactly
\* once, with "N/A" when the info key is absent or empty or the parser gave
\* no info mapping and with the key's value otherwise; the version line
\* shows "N/A" when there is no version; no field is left empty.
C20_FieldsAlwaysShown ==
    \A r \in Requests :
        Reported(r)
        => LET t == ReportOf(r)
               doc == fs[req[r].path]
           IN  /\ ~IsErrorEnvelope(req[r].result)
               /\ \A f \in ReportFields :
                     /\ ShownOnce(t, f[1])
                     /\ ValueAfter(t, f[1]) # <<>>
                     /\ ValueAfter(t, f[1])
                        = IF Unavailable(doc, f[2]) THEN <<"N/A">>
                          ELSE doc.info.v[f[2]]
               /\ ShownOnce(t, "Version: ")
               /\ ValueAfter(t, "Version: ")
                  = IF doc.version.t = "string" /\ doc.version.v # <<>>
                    THEN doc.version.v ELSE <<"N/A">>

\* C20 witness: the report of a document without a version whose info has
\* a Title, an empty Keywords and no Author
C20_Witness ==
    \E r \in Requests :
        /\ Reported(r)
        /\ fs[req[r].path].info.t = "object"
        /\ DOMAIN fs[req[r].path].info.v = {"Title", "Keywords"}
        /\ fs[req[r].path].info.v["Keywords"] = <<>>
        /\ fs[req[r].path].version.t = "undefined"
        /\ ValueAfter(ReportOf(r), "  Title: ") = <<"x">>
        /\ ValueAfter(ReportOf(r), "  Author: ") = <<"N/A">>
        /\ ValueAfter(ReportOf(r), "  Keywords: ") = <<"N/A">>
        /\ ValueAfter(ReportOf(r), "Version: ") = <<"N/A">>

(***************************************************************************)
(* Properties of requests compared with each other                         *)
(***************************************************************************)
\* two argument bags that differ in `pages` at most
SameButPages(a1, a2) ==
    /\ DOMAIN a1 \ {"pages"} = DOMAIN a2 \ {"pages"}
    /\ \A f \in DOMAIN a1 \ {"pages"} : a1[f] = a2[f]

\* a read-pdf request that has been answered
ReadAnswered(r) ==
    /\ inbox[r].name = "read-pdf"
    /\ inbox[r].hasArgs
    /\ Done(r)

ErrorEnvelope(message) ==
    [content |-> <<[type |-> "text", text |-> <<"Error: ">> \o message]>>,
     isError |-> TRUE]

\* the result of the call when it is the only request the server handles
SoloResult(call) ==
    IF call.name \notin ToolNames
    THEN ErrorEnvelope(<<"Unknown tool: ", call.name>>)
    ELSE IF ~call.hasArgs
    THEN ErrorEnvelope(<<"TypeError: Cannot destructure 'args'">>)
    ELSE IF Get(call.args, "file").t # "string"
    THEN ErrorEnvelope(<<"TypeError: The \"paths[0]\" argument must be of type string">>)
    ELSE IF resolve(call.args.file.v) \notin DOMAIN fs
    THEN ErrorEnvelope(<<"ENOENT: no such file or directory">>)
    ELSE IF fs[resolve(call.args.file.v)].kind # "pdf"
    THEN ErrorEnvelope(<<"Invalid PDF structure">>)
    ELSE LET outcome == HandlerResult(call.name, call.args,
                                      fs[resolve(call.args.file.v)])
         IN  IF outcome.kind = "throw" THEN ErrorEnvelope(outcome.message)
             ELSE outcome.value

\* C22: whatever the interleaving of the load steps of the requests in
\* flight, the result of a request is the result its call gives when it runs
\* alone on the same files; the Document Handle of a request is its own, for
\* the file it asked for, and no promise is rejected.
C22_RequestsIndependent ==
    \A r \in Requests :
        /\ Done(r) => req[r].result = SoloResult(inbox[r])
        /\ Done(r) => r \notin escaped
        /\ req[r].handle # 0
           => /\ handles[req[r].handle].owner = r
              /\ handles[req[r].handle].path = resolve(inbox[r].args.file.v)

\* C22 witness: a search of doc.pdf answered with matches from the first
\* document parsed, and a read of notes.txt by the other request answered
\* with the parser's failure
C22_Witness ==
    \E r1, r2 \in Requests :
        /\ r1 # r2
        /\ inbox[r1].name = "search-pdf" /\ Done(r1) /\ req[r1].handle = 1
        /\ Len(MatchesOf(r1)) > 0
        /\ inbox[r2].name = "read-pdf" /\ Done(r2)
        /\ req[r2].path = resolve(NotesPath)
        /\ IsErrorEnvelope(req[r2].result)
        /\ req[r1].result = SoloResult(inbox[r1])
        /\ req[r2].result = SoloResult(inbox[r2])

\* C23: two answered requests with the same operation and the same
\* argument bag have identical result envelopes, whatever was handled
\* between them.
C23_SameCallSameResult ==
    \A r1, r2 \in Requests :
        (Done(r1) /\ Done(r2) /\ inbox[r1] = inbox[r2])
        => req[r1].result = req[r2].result

\* C23 witness: the same search answered from the first and from the third
\* document parsed, a different request answered from the second
C23_Witness ==
    \E r1, r2, r3 \in Requests :
        /\ Done(r1) /\ Done(r2) /\ Done(r3)
        /\ inbox[r1] = inbox[r3] /\ inbox[r2] # inbox[r1]
        /\ inbox[r1].name = "search-pdf"
        /\ req[r1].handle = 1 /\ req[r2].handle = 2 /\ req[r3].handle = 3
        /\ Len(MatchesOf(r1)) > 0
        /\ req[r1].result = req[r3].result

(***************************************************************************)
(* Properties of the result envelope                                       *)
(***************************************************************************)
Failed(r) == FailsBeforeLoad(r) \/ FailsInLoad(r) \/ FailsInEngine(r)

\* an envelope of exactly one text item holding a string, without isError
IsSuccessEnvelope(e) ==
    /\ DOMAIN e = {"content"}
    /\ Len(e.content) = 1
    /\ DOMAIN e.content[1] = {"type", "text"}
    /\ e.content[1].type = "text"
    /\ e.content[1].text \in Seq(STRING)

\* C24: the result of every request that did not fail is an envelope of
\* exactly one item of type "text" holding a string and has no isError;
\* an envelope has isError only when the request failed.
C24_SuccessEnvelopeShape ==
    \A r \in Requests :
        Done(r)
        => /\ ~Failed(r) => IsSuccessEnvelope(req[r].result)
           /\ "isError" \in DOMAIN req[r].result => Failed(r)
           /\ Failed(r) => IsErrorEnvelope(req[r].result)

\* C24 witness: a pdf-metadata request answered with a success envelope
\* next to a request answered with a failure envelope
C24_Witness ==
    \E r1, r2 \in Requests :
        /\ Done(r1) /\ ~Failed(r1) /\ inbox[r1].name = "pdf-metadata"
        /\ IsSuccessEnvelope(req[r1].result)
        /\ Done(r2) /\ Failed(r2) /\ inbox[r2].name \in ToolNames
        /\ req[r2].result.isError

\* the bag with the documented defaults filled in for the flags it leaves out
WithDefaults(call) ==
    LET defaults == IF call.name = "read-pdf"
                    THEN [clean_text |-> JsBool(FALSE),
                          include_metadata |-> JsBool(TRUE)]
                    ELSE [case_sensitive |-> JsBool(FALSE),
                          whole_word |-> JsBool(FALSE)]
    IN  [f \in DOMAIN call.args \cup DOMAIN defaults |->
            IF f \in DOMAIN call.args THEN call.args[f] ELSE defaults[f]]

\* C25: a read-pdf or search-pdf request that leaves out an optional flag has
\* the same result as the request that passes the documented default for it
\* (clean_text false, include_metadata true, case_sensitive false,
\* whole_word false) and the same other arguments.
C25_OmittedIsDefault ==
    \A r1, r2 \in Requests :
        (/\ Done(r1) /\ Done(r2)
         /\ inbox[r1].name \in {"read-pdf", "search-pdf"}
         /\ inbox[r1].name = inbox[r2].name
         /\ inbox[r1].hasArgs /\ inbox[r2].hasArgs
         /\ inbox[r2].args = WithDefaults(inbox[r1]))
        => req[r1].result = req[r2].result

\* C25 witness: a search without flags and the search with both flags false,
\* both answered from the document with matches
C25_Witness ==
    \E r1, r2 \in Requests :
        /\ Done(r1) /\ Done(r2)
        /\ inbox[r1].name = "search-pdf"
        /\ inbox[r2].name = "search-pdf"
        /\ DOMAIN inbox[r1].args = {"file", "query"}
        /\ inbox[r2].args = WithDefaults(inbox[r1])
        /\ Len(MatchesOf(r1)) > 0
        /\ req[r1].result = req[r2].result

\* the request has its result envelope
Answered(r) ==
    /\ req[r].pc = "done"
    /\ r \notin escaped
    /\ IsSuccessEnvelope(req[r].result) \/ IsErrorEnvelope(req[r].result)

\* C26: when every file read and every parse settles, every request is
\* eventually answered with a result envelope (success or error), and an
\* answered request is never answered again: its record stays as it is.
C26_EventuallyOneResult ==
    /\ <>(\A r \in Requests : Answered(r))
    /\ [][\A r \in 1..MaxRequests :
             req[r].pc = "done" => req'[r] = req[r]]_vars

\* C26 witness: every request is answered, one with a success and one with
\* an error envelope
C26_Witness ==
    /\ \A r \in Requests : Answered(r)
    /\ \E r \in Requests : IsSuccessEnvelope(req[r].result)
    /\ \E r \in Requests : IsErrorEnvelope(req[r].result) /\ FailsInLoad(r)

\* C27: every match a search reports is attributed to a page of the
\* document besides its line: the match carries a page number, and that
\* number is one of the pages 1..numpages of the document searched.
C27_MatchHasPage ==
    \A r \in Requests :
        Searched(r)
        => \A m \in 1..Len(MatchesOf(r)) :
              /\ DOMAIN MatchesOf(r)[m] = {"line", "page", "context"}
              /\ MatchesOf(r)[m].page \in 1..fs[req[r].path].numpages

(***************************************************************************)
(* The order of the steps of a request                                     *)
(***************************************************************************)
\* the request's fs.readFile was rejected / its pdfParse was rejected
LoadFailed(r) ==
    /\ calls[r].readFile > 0
    /\ req[r].pc \in {"parsing", "done"}
    /\ req[r].path \notin DOMAIN fs
ParseFailed(r) ==
    /\ calls[r].pdfParse > 0
    /\ req[r].pc = "done"
    /\ fs[req[r].path].kind # "pdf"

\* an engine has run for the request: it holds a parsed document, its scan
\* ran, or a success payload was built
EngineRan(r) ==
    \/ req[r].handle # 0
    \/ req[r].scan.ran
    \/ IsSuccessEnvelope(req[r].result)

\* the steps a request takes, in their order
StepOrder == {<<"idle", "reading">>, <<"reading", "parsing">>,
              <<"parsing", "done">>,
              <<"idle", "done">>, <<"reading", "done">>}

\* C28: within a request the steps come in the order load, parse, engine,
\* result.  The parser is called after the file was read, once; an engine
\* runs and a success payload exists only in the finished request whose own
\* read and parse succeeded; a request whose read or parse failed has no
\* document, no scan and no success payload, and ends in an error envelope.
C28_LoadParseEngineResult ==
    /\ [](\A r \in Requests :
            /\ calls[r].pdfParse > 0
               => /\ calls[r].readFile = 1
                  /\ calls[r].pdfParse = 1
                  /\ req[r].path \in DOMAIN fs
                  /\ req[r].pc \in {"parsing", "done"}
            /\ EngineRan(r)
               => /\ Done(r)
                  /\ calls[r].pdfParse = 1
                  /\ fs[req[r].path].kind = "pdf"
            /\ (req[r].handle # 0) => handles[req[r].handle].owner = r
            /\ (Done(r) /\ (calls[r].pdfParse = 0 \/ ParseFailed(r)))
               => /\ ~EngineRan(r)
                  /\ r \notin escaped
                  /\ IsErrorEnvelope(req[r].result))
    /\ [][\A r \in 1..MaxRequests :
             req'[r].pc # req[r].pc
             => /\ <<req[r].pc, req'[r].pc>> \in StepOrder
                /\ (req'[r].pc = "parsing")
                   <=> (calls[r].pdfParse = 0 /\ calls'[r].pdfParse = 1)
                /\ EngineRan(r)' => req[r].pc = "parsing"]_vars

\* C28 witness: one request went through read, parse and engine to a success
\* payload, another one's parse failed and it ended in an error envelope
\* without an engine step
C28_Witness ==
    \E r1, r2 \in Requests :
        /\ Done(r1) /\ req[r1].scan.ran /\ req[r1].handle # 0
        /\ IsSuccessEnvelope(req[r1].result)
        /\ calls[r1] = [loadPdf |-> 1, readFile |-> 1, pdfParse |-> 1]
        /\ ParseFailed(r2) /\ ~EngineRan(r2)
        /\ IsErrorEnvelope(req[r2].result)

(***************************************************************************)
(* The payload of read-pdf                                                 *)
(***************************************************************************)
\* the flag as the client sent it, or its documented default
FlagOf(r, flag, default) ==
    IF flag \in DOMAIN inbox[r].args THEN inbox[r].args[flag].v ELSE default

\* the value of an info field, "N/A" when the mapping or the field is absent
\* or the field is empty
FieldOrNA(info, f) ==
    IF info.t # "object" THEN <<"N/A">>
    ELSE IF f \notin DOMAIN info.v THEN <<"N/A">>
    ELSE IF info.v[f] = <<>> THEN <<"N/A">>
    ELSE info.v[f]

\* the metadata block: its heading after a blank line, then the five lines
MetadataBlock(doc) ==
    <<"\n\n--- PDF Metadata ---",
      "\n", "Pages: ">> \o NumStr(doc.numpages)
    \o <<"\n", "Title: ">> \o FieldOrNA(doc.info, "Title")
    \o <<"\n", "Author: ">> \o FieldOrNA(doc.info, "Author")
    \o <<"\n", "Creator: ">> \o FieldOrNA(doc.info, "Creator")
    \o <<"\n", "Producer: ">> \o FieldOrNA(doc.info, "Producer")

\* a read-pdf request answered from its document, its flags booleans or absent
ReadFromDocument(r) ==
    /\ ReadAnswered(r)
    /\ req[r].handle # 0
    /\ \A flag \in {"clean_text", "include_metadata"} :
          flag \in DOMAIN inbox[r].args => inbox[r].args[flag].t = "boolean"

\* C29: the payload of read-pdf is one text item: 'PDF Text Content:\n\n',
\* then the parser's text as it is when clean_text is false or absent and
\* cleanText of it when clean_text is true; nothing more when
\* include_metadata is false; when it is true or absent, the metadata block
\* with the lines Pages, Title, Author, Creator, Producer in that order, a
\* field absent or empty shown as N/A.
C29_ReadPayloadFormat ==
    \A r \in Requests :
        ReadFromDocument(r)
        => LET doc == fs[req[r].path]
               body == IF FlagOf(r, "clean_text", FALSE)
                       THEN cleanText(doc.text) ELSE doc.text
               block == IF FlagOf(r, "include_metadata", TRUE)
                        THEN MetadataBlock(doc) ELSE <<>>
           IN  req[r].result
               = [content |-> <<[type |-> "text",
                                 text |-> <<"PDF Text Content:\n\n">>
                                          \o body \o block]>>]

\* C29 witness: a cleaned answer with the block, where Title is set, Author
\* is empty and Creator is absent, and the text needed cleaning
C29_Witness ==
    \E r \in Requests :
        /\ ReadFromDocument(r)
        /\ FlagOf(r, "clean_text", FALSE)
        /\ FlagOf(r, "include_metadata", TRUE)
        /\ cleanText(TextOf(r)) # TextOf(r)
        /\ fs[req[r].path].info.t = "object"
        /\ DOMAIN fs[req[r].path].info.v = {"Title", "Author", "Producer"}
        /\ fs[req[r].path].info.v.Title = <<"x">>
        /\ fs[req[r].path].info.v.Author = <<>>
        /\ fs[req[r].path].numpages = 12

(***************************************************************************)
(* Queries that span a line break                                          *)
(***************************************************************************)
HasNewline(s) == \E i \in 1..Len(s) : s[i] = NL

\* C30: under the substring policy a query that holds a newline matches no
\* line, whatever the text is: the scan finds no match and the answer is the
\* one of a search without a match, even where the text holds the query
\* across a line break.
C30_NewlineQueryNeverMatches ==
    \A r \in Requests :
        (Searched(r) /\ ~WholeWordOf(r) /\ HasNewline(QueryOf(r)))
        => /\ MatchesOf(r) = <<>>
           /\ req[r].result
              = [content |-> <<[type |-> "text",
                                text |-> NoMatchText(QueryOf(r),
                                                     inbox[r].args.file.v)]>>]

\* C30 witness: the text holds the query "a\n" across its line break, and the
\* search reports no match
C30_Witness ==
    \E r \in Requests :
        /\ Searched(r) /\ ~WholeWordOf(r)
        /\ QueryOf(r) = <<"a", NL>>
        /\ TextOf(r) = <<"a", NL, "a">>
        /\ includes(TextOf(r), QueryOf(r))
        /\ MatchesOf(r) = <<>>

====
